---- MODULE Spec2Model ----
(***************************************************************************)
(* Model of the pyomo-enzyme-cascade package: the enzyme profile builder   *)
(* (model/utils.py), the pore-scale constraint builder                     *)
(* (model/pore_concentration_profile.py), the bulk-scale builder           *)
(* (model/reactor_concentration_profile.py), build_reactor_model (main.py) *)
(* and the discretize-and-solve orchestration (model/solve.py).            *)
(*                                                                         *)
(* Units.  Fractions of the maximum density and of the pore length         *)
(* (start, end, x_step_up, x_step_down) are in tenths: 10 is 1.0.          *)
(* Tolerances and barrier parameters are in units of 1e-8: 100 is 1e-6.    *)
(* Pore positions are in units of 1e-4 dm.  A logistic value is in         *)
(* thousandths.  Rationals are pairs [num, den] in lowest terms.           *)
(***************************************************************************)
EXTENDS Integers, Sequences, FiniteSets, TLC

VARIABLES
    model,        \* the model object the driver holds (test_model)
    built,        \* the last build_reactor_model call: its arguments and outcome
    call,         \* the last solve_model / solve_model_robust call and its outcome
    profileCall,  \* the last direct call of enzyme_profile_rule
    coefCall,      \* the last direct call of calculate_pore_count_coefficient
    loadCall, \* the last parameter loading and domain creation
    study, \* the run_enzyme_ratio_study call in progress: its arguments, locals and results
    mofBuilt \* the last build_reactor_model call of mof-model: its arguments, outcome and model

vars == <<model, built, call, profileCall, coefCall, loadCall, study, mofBuilt>>

(***************************************************************************)
(* Dictionaries.  A Python dict with numeric values is a function from the *)
(* set of its keys; d.get(k, default) is Get.                              *)
(***************************************************************************)
EmptyDict == [k \in {} |-> 0]

Get(d, k, default) == IF k \in DOMAIN d THEN d[k] ELSE default

Abs(n) == IF n < 0 THEN -n ELSE n

RECURSIVE Gcd(_, _)
Gcd(a, b) == IF b = 0 THEN a ELSE Gcd(b, a % b)

\* the rational n/d (d > 0) in lowest terms
Ratio(n, d) ==
    LET g == Gcd(Abs(n), d)
    IN  [num |-> n \div g, den |-> d \div g]

(***************************************************************************)
(* config.py                                                               *)
(***************************************************************************)
PORE_LENGTH == 2       \* L, 2e-4 dm
MAX_ENZYME_A == 5      \* E_A^max
MAX_ENZYME_B == 5      \* E_B^max

(***************************************************************************)
(* utils.py: enzyme_profile_rule                                           *)
(***************************************************************************)
\* the absent expression (the call raised before pyo.Expression was built)
NoExpr ==
    [fun |-> "none", E_max |-> "none", start |-> 0, end |-> 0,
     x_step_up |-> 0, x_step_down |-> 0, smoothness |-> 0]

\* utils.py:25  (start < 0 or start > 1) or (end < 0 or end > 1)
StartEndOutOfRangeOnlyStart(start, end) == start < 0 \/ start > 10

StartEndOutOfRange(start, end) ==
    (start < 0 \/ start > 10) \/ (end < 0 \/ end > 10)

\* utils.py:39-44: the three checks of the step parameters, in order
StepParamsInvalidStrict(x_step_up, x_step_down) ==
    \/ x_step_up < 0 \/ x_step_up > 10
    \/ x_step_down < 0 \/ x_step_down > 10
    \/ x_step_up > x_step_down

StepParamsInvalid(x_step_up, x_step_down) ==
    \/ x_step_up < 0 \/ x_step_up > 10
    \/ x_step_down < 0 \/ x_step_down > 10
    \/ x_step_up >= x_step_down

\* E_max is the name of the parameter object the expression refers to
\* ("EA" or "EB"); kwargs is the dict of the remaining keyword arguments.
\* The result is the raised error (the two ValueError families: a range
\* message, or "Unsupported profile type") or the expression returned.
enzyme_profile_rule_DefaultLinear(E_max, start, end, fun, kwargs) ==
    IF StartEndOutOfRange(start, end)
    THEN [error |-> "InvalidParameterError", expr |-> NoExpr]
    ELSE IF fun = "step"
    THEN LET x_step_up   == Get(kwargs, "x_step_up", 3)
             x_step_down == Get(kwargs, "x_step_down", 7)
             smoothness  == Get(kwargs, "smoothness", 100)
         IN  IF StepParamsInvalid(x_step_up, x_step_down)
             THEN [error |-> "InvalidParameterError", expr |-> NoExpr]
             ELSE [error |-> "none",
                   expr |-> [fun |-> "step", E_max |-> E_max, start |-> start,
                             end |-> end, x_step_up |-> x_step_up,
                             x_step_down |-> x_step_down, smoothness |-> smoothness]]
    ELSE [error |-> "none",
          expr |-> [fun |-> "linear", E_max |-> E_max, start |-> start, end |-> end,
                    x_step_up |-> 0, x_step_down |-> 0, smoothness |-> 0]]

enzyme_profile_rule(E_max, start, end, fun, kwargs) ==
    IF StartEndOutOfRange(start, end)
    THEN [error |-> "InvalidParameterError", expr |-> NoExpr]
    ELSE IF fun = "linear"
    THEN [error |-> "none",
          expr |-> [fun |-> "linear", E_max |-> E_max, start |-> start, end |-> end,
                    x_step_up |-> 0, x_step_down |-> 0, smoothness |-> 0]]
    ELSE IF fun = "step"
    THEN LET x_step_up   == Get(kwargs, "x_step_up", 3)
             x_step_down == Get(kwargs, "x_step_down", 7)
             smoothness  == Get(kwargs, "smoothness", 100)
         IN  IF StepParamsInvalid(x_step_up, x_step_down)
             THEN [error |-> "InvalidParameterError", expr |-> NoExpr]
             ELSE [error |-> "none",
                   expr |-> [fun |-> "step", E_max |-> E_max, start |-> start,
                             end |-> end, x_step_up |-> x_step_up,
                             x_step_down |-> x_step_down, smoothness |-> smoothness]]
    ELSE [error |-> "UnsupportedProfileError", expr |-> NoExpr]

\* mof-model/model/utils.py: the first version of the builder, linear only
\* and without the range check
enzyme_profile_rule_mof(E_max, start, end, fun, kwargs) ==
    IF fun = "linear"
    THEN [error |-> "none",
          expr |-> [fun |-> "linear", E_max |-> E_max, start |-> start, end |-> end,
                    x_step_up |-> 0, x_step_down |-> 0, smoothness |-> 0]]
    ELSE [error |-> "UnsupportedProfileError", expr |-> NoExpr]

(***************************************************************************)
(* Evaluation of a profile expression at a pore position.                  *)
(* pyo.exp is tabulated: Logistic is 1/(1 + exp(-z)) at an integer z, in   *)
(* thousandths, and the argument smoothness * (x/L - x_step) is rounded    *)
(* down to an integer.                                                     *)
(***************************************************************************)
Logistic(z) ==
    LET pos == <<731, 881, 953, 982, 993, 998, 999>>
    IN  IF z = 0 THEN 500
        ELSE IF z >= 8 THEN 1000
        ELSE IF z <= -8 THEN 0
        ELSE IF z > 0 THEN pos[z]
        ELSE 1000 - pos[-z]

\* utils.py:49,52: 1.0 / (1.0 + exp(-smoothness * (x_frac - x_step)))
Transition(smoothness, x, x_step) ==
    Logistic((smoothness * (10 * x - x_step * PORE_LENGTH)) \div (10 * PORE_LENGTH))

\* the value of the expression at position x with the parameter E_max at
\* value E, times 10 * 1000 * L (tenths, thousandths, x/L)
ProfileValueNoIntercept(expr, x, E) ==
    IF expr.fun = "linear"
    THEN E * ((expr.end - expr.start) * x) * 1000
    ELSE LET up   == Transition(expr.smoothness, x, expr.x_step_up)
             down == Transition(expr.smoothness, x, expr.x_step_down)
         IN  E * (expr.start * (1000 - up) + expr.end * (up - down)
                  + expr.start * down) * PORE_LENGTH

ProfileValue(expr, x, E) ==
    IF expr.fun = "linear"
    THEN E * (expr.start * PORE_LENGTH + (expr.end - expr.start) * x) * 1000
    ELSE LET up   == Transition(expr.smoothness, x, expr.x_step_up)
             down == Transition(expr.smoothness, x, expr.x_step_down)
         IN  E * (expr.start * (1000 - up) + expr.end * (up - down)
                  + expr.start * down) * PORE_LENGTH

RECURSIVE SumValues(_, _, _)
SumValues(expr, xs, E) ==
    IF xs = {} THEN 0
    ELSE LET x == CHOOSE p \in xs : TRUE
         IN  ProfileValue(expr, x, E) + SumValues(expr, xs \ {x}, E)

(***************************************************************************)
(* utils.py: calculate_pore_count_coefficient.  x_values are the points of *)
(* model.x at the time of the call, raising those among them whose         *)
(* evaluation raises (the bare except skips them); E is value(E_max).      *)
(***************************************************************************)
calculate_pore_count_coefficient_NoZeroGuard(x_values, raising, E_profile_expression, E) ==
    LET evaluated    == x_values \ raising
        total_enzyme == SumValues(E_profile_expression, evaluated, E)
        count        == Cardinality(evaluated)
    IN  IF count > 0 /\ total_enzyme = 0
        THEN [num |-> E * count * 10 * 1000 * PORE_LENGTH, den |-> 0]
        ELSE IF count > 0
        THEN Ratio(E * count * 10 * 1000 * PORE_LENGTH, total_enzyme)
        ELSE Ratio(1, 1)

calculate_pore_count_coefficient_Inverted(x_values, raising, E_profile_expression, E) ==
    LET evaluated    == x_values \ raising
        total_enzyme == SumValues(E_profile_expression, evaluated, E)
        count        == Cardinality(evaluated)
    IN  IF count > 0 /\ total_enzyme > 0
        THEN Ratio(total_enzyme, E * count * 10 * 1000 * PORE_LENGTH)
        ELSE Ratio(1, 1)

calculate_pore_count_coefficient(x_values, raising, E_profile_expression, E) ==
    LET evaluated    == x_values \ raising
        total_enzyme == SumValues(E_profile_expression, evaluated, E)
        count        == Cardinality(evaluated)
    IN  \* avg_enzyme = total_enzyme / count if count > 0 else 0;
        \* ref_enzyme_avg / avg_enzyme if avg_enzyme > 0 else 1.0
        IF count > 0 /\ total_enzyme > 0
        THEN Ratio(E * count * 10 * 1000 * PORE_LENGTH, total_enzyme)
        ELSE Ratio(1, 1)


(***************************************************************************)
(* The model object.  time and x are the two ContinuousSets with their     *)
(* discretization info; pore_eqs and bulk_eqs are the governing            *)
(* constraints; a reaction term [sign, E, decay, k, S] stands for          *)
(* sign * E * decay[t] * k * S_n[S, x, t] on the right-hand side of        *)
(* D_i * d2S_i/dx2 = ..., a bulk term [sign, flux] for sign * flux[S, t].  *)
(***************************************************************************)
Components == {"S1", "S2", "S3"}

ContinuousSet == [scheme |-> "none", nfe |-> 0, ncp |-> 0]

NoDecay == [kind |-> "none", rate |-> 0]

\* model.x as a coefficient that was never computed saw it
UnreadSet == [scheme |-> "unread", nfe |-> 0, ncp |-> 0]

\* flux[c, t] = sign * D[c] * gradient[c, at, t] * A * Np * pore_multiple;
\* coef_x is model.x as calculate_pore_count_coefficient read it
NoFlux ==
    [attached |-> FALSE, sign |-> 0, D |-> "none", gradient |-> "none",
     at |-> "none", A |-> "none", pore_multiple |-> Ratio(0, 1),
     coef_x |-> UnreadSet]

Flux(at, pore_multiple, coef_x) ==
    [attached |-> TRUE, sign |-> -1, D |-> "D", gradient |-> "dS_ndx",
     at |-> at, A |-> "A", pore_multiple |-> pore_multiple, coef_x |-> coef_x]

NoModel ==
    [exists |-> FALSE, EA |-> 0, EB |-> 0,
     decay_A |-> NoDecay, decay_B |-> NoDecay,
     EA_x_profile |-> NoExpr, EB_x_profile |-> NoExpr,
     pore_eqs |-> {}, bcs |-> {}, flux |-> NoFlux, bulk_eqs |-> {}, ics |-> {},
     time |-> ContinuousSet, x |-> ContinuousSet, solved |-> FALSE]

\* main.py:10-30: ConcreteModel, sets, parameters (config.py), the two
\* continuous domains and the state and derivative variables
NewModel ==
    [NoModel EXCEPT !.exists = TRUE, !.EA = MAX_ENZYME_A, !.EB = MAX_ENZYME_B]

\* the points of model.x: the bounds (0, L) before discretization
PorePoints(m) == {0, PORE_LENGTH}

\* pore_concentration_profile.py:12-20
DecayExpressionAlwaysOne(k_decay) == [kind |-> "one", rate |-> 0]

DecayExpression(k_decay) ==
    IF k_decay > 0 THEN [kind |-> "exp", rate |-> k_decay]
    ELSE [kind |-> "one", rate |-> 0]

\* exp(-n) in thousandths, rounded
ExpNeg(n) ==
    LET tab == <<368, 135, 50, 18, 7, 2, 1>>
    IN  IF n = 0 THEN 1000
        ELSE IF n >= 8 THEN 0
        ELSE tab[n]

\* pore_concentration_profile.py:13,15 and 18,20: the value of decay_A[t]
\* or decay_B[t], in thousandths
DecayValue(decay, t) ==
    IF decay.kind = "exp" THEN ExpNeg(decay.rate * t) ELSE 1000

(***************************************************************************)
(* The profile configuration (bvp_kwargs): None, or a dict with the keys   *)
(* default_fun, adjust_Np, enzymeA, enzymeB.  A missing string key is      *)
(* "absent"; a missing enzymeA or enzymeB is the empty enzyme dict.  An    *)
(* enzyme dict is its 'fun' and the dict num of its numeric entries.       *)
(***************************************************************************)
EmptyEnzyme == [fun |-> "absent", num |-> EmptyDict]

NoneKwargs ==
    [given |-> FALSE, default_fun |-> "absent", adjust_Np |-> "absent",
     enzymeA |-> EmptyEnzyme, enzymeB |-> EmptyEnzyme]

GetStr(v, default) == IF v = "absent" THEN default ELSE v

\* {k: v for k, v in enzyme_kwargs.items() if k not in ['fun', 'start', 'end']}
ShapeKwargs(num) == [k \in (DOMAIN num) \ {"start", "end"} |-> num[k]]

\* pore_concentration_profile.py:49-56 and 58-65: one enzyme's profile
EnzymeProfileIgnoresFun(E_max, enzyme_kwargs, default_fun, start0, end0) ==
    enzyme_profile_rule(E_max,
                        Get(enzyme_kwargs.num, "start", start0),
                        Get(enzyme_kwargs.num, "end", end0),
                        default_fun,
                        ShapeKwargs(enzyme_kwargs.num))

EnzymeProfile(E_max, enzyme_kwargs, default_fun, start0, end0) ==
    enzyme_profile_rule(E_max,
                        Get(enzyme_kwargs.num, "start", start0),
                        Get(enzyme_kwargs.num, "end", end0),
                        GetStr(enzyme_kwargs.fun, default_fun),
                        ShapeKwargs(enzyme_kwargs.num))

\* pore_concentration_profile.py:103 and 115: the multiple of Np that
\* multiplies -D * dS_ndx * A in the flux:  Np / 2  and  Np * coef / 2
FluxPoreMultipleNoHalf(pore_count_coef) == pore_count_coef

FluxPoreMultiple(pore_count_coef) ==
    Ratio(pore_count_coef.num, 2 * pore_count_coef.den)

SinglePoreEqs ==
    {[name |-> "typeA_pore_bvp", species |-> "S1",
      terms |-> {[sign |-> 1, E |-> "EA", decay |-> "decay_A", k |-> "kA", S |-> "S1"]}],
     [name |-> "typeB_pore_bvp", species |-> "S2",
      terms |-> {[sign |-> 1, E |-> "EB", decay |-> "decay_B", k |-> "kB", S |-> "S2"]}]}

MixedPoreEqs ==
    LET termA(sg) == [sign |-> sg, E |-> "EA_x_profile", decay |-> "decay_A",
                      k |-> "kA", S |-> "S1"]
        termB(sg) == [sign |-> sg, E |-> "EB_x_profile", decay |-> "decay_B",
                      k |-> "kB", S |-> "S2"]
    IN  {[name |-> "S1_mixed_pore_bvp", species |-> "S1", terms |-> {termA(1)}],
         [name |-> "S2_mixed_pore_bvp", species |-> "S2", terms |-> {termB(1), termA(-1)}],
         [name |-> "S3_mixed_pore_bvp", species |-> "S3", terms |-> {termB(1)}]}

\* pore_concentration_profile.py:88-97: bc1 and bc2, per species
BoundaryConditionsBothAtEntrance ==
    {[name |-> "bc1", species |-> c, lhs |-> "S_n", at |-> "x.first()", rhs |-> "S_0"]
        : c \in Components}
    \cup
    {[name |-> "bc2", species |-> c, lhs |-> "dS_ndx", at |-> "x.first()", rhs |-> "0"]
        : c \in Components}

BoundaryConditions ==
    {[name |-> "bc1", species |-> c, lhs |-> "S_n", at |-> "x.first()", rhs |-> "S_0"]
        : c \in Components}
    \cup
    {[name |-> "bc2", species |-> c, lhs |-> "dS_ndx", at |-> "x.last()", rhs |-> "0"]
        : c \in Components}

\* a coefficient that averages the densities of both enzymes
PoreCountCoefBothEnzymes(m) ==
    LET a == calculate_pore_count_coefficient(PorePoints(m), {}, m.EA_x_profile, m.EA)
        b == calculate_pore_count_coefficient(PorePoints(m), {}, m.EB_x_profile, m.EB)
    IN  Ratio(a.num * b.den + b.num * a.den, 2 * a.den * b.den)

\* pore_concentration_profile.py:109-110:
\* calculate_pore_count_coefficient(model, model.EA_x_profile, model.EA)
PoreCountCoef(m) ==
    calculate_pore_count_coefficient(PorePoints(m), {}, m.EA_x_profile, m.EA)

(***************************************************************************)
(* pore_concentration_profile.py: add_bvp_constraints.  The result is the  *)
(* model as the call leaves it and the error it raised ("none" when it     *)
(* returned).                                                              *)
(***************************************************************************)
add_bvp_constraints_ElseSingle(m, immobilization, decay_coef, bvp_kwargs) ==
    LET m1 == [m EXCEPT !.decay_A = DecayExpression(Get(decay_coef, "kA", 0)),
                        !.decay_B = DecayExpression(Get(decay_coef, "kB", 0))]
    IN  [model |-> [m1 EXCEPT !.pore_eqs = SinglePoreEqs,
                              !.bcs = BoundaryConditions,
                              !.flux = Flux("x.first()", FluxPoreMultiple(Ratio(1, 1)),
                                             UnreadSet)],
         error |-> "none"]

add_bvp_constraints(m, immobilization, decay_coef, bvp_kwargs) ==
    LET m1 == [m EXCEPT !.decay_A = DecayExpression(Get(decay_coef, "kA", 0)),
                        !.decay_B = DecayExpression(Get(decay_coef, "kB", 0))]
    IN  IF immobilization = "single"
        THEN [model |-> [m1 EXCEPT !.pore_eqs = SinglePoreEqs,
                                   !.bcs = BoundaryConditions,
                                   !.flux = Flux("x.first()",
                                                  FluxPoreMultiple(Ratio(1, 1)),
                                                  UnreadSet)],
              error |-> "none"]
        ELSE IF immobilization = "co-immobilization"
        THEN IF ~bvp_kwargs.given
             THEN \* bvp_kwargs.get on None
                  [model |-> m1, error |-> "AttributeError"]
             ELSE
             LET default_fun == GetStr(bvp_kwargs.default_fun, "linear")
                 rA == EnzymeProfile("EA", bvp_kwargs.enzymeA, default_fun, 10, 0)
                 rB == EnzymeProfile("EB", bvp_kwargs.enzymeB, default_fun, 0, 10)
                 m2 == [m1 EXCEPT !.EA_x_profile = rA.expr]
                 m3 == [m2 EXCEPT !.EB_x_profile = rB.expr,
                                  !.pore_eqs = MixedPoreEqs,
                                  !.bcs = BoundaryConditions]
                 adjust_Np == GetStr(bvp_kwargs.adjust_Np, "False") = "True"
                 pore_count_coef ==
                     IF adjust_Np
                     THEN PoreCountCoef(m3)
                     ELSE Ratio(2, 1)
             IN  IF rA.error # "none" THEN [model |-> m1, error |-> rA.error]
                 ELSE IF rB.error # "none" THEN [model |-> m2, error |-> rB.error]
                 ELSE [model |-> [m3 EXCEPT !.flux =
                                     Flux("0", FluxPoreMultiple(pore_count_coef),
                                          IF adjust_Np THEN m3.x ELSE UnreadSet)],
                       error |-> "none"]
        ELSE [model |-> m1, error |-> "InvalidTopologyError"]

(***************************************************************************)
(* reactor_concentration_profile.py: add_reactor_odes                      *)
(***************************************************************************)
\* lines 14-26: the 'co-immobilization' branch
BulkEqsCoImmobilizationNoOutflow ==
    {[name |-> "S1_reactor_ivp", species |-> "S1",
      terms |-> {[sign |-> -1, flux |-> "S1"]}],
     [name |-> "S2_reactor_ivp", species |-> "S2",
      terms |-> {[sign |-> 1, flux |-> "S1"]}],
     [name |-> "S3_reactor_ivp", species |-> "S3",
      terms |-> {[sign |-> 1, flux |-> "S2"]}]}

BulkEqsCoImmobilization ==
    {[name |-> "S1_reactor_ivp", species |-> "S1",
      terms |-> {[sign |-> -1, flux |-> "S1"]}],
     [name |-> "S2_reactor_ivp", species |-> "S2",
      terms |-> {[sign |-> 1, flux |-> "S1"], [sign |-> -1, flux |-> "S2"]}],
     [name |-> "S3_reactor_ivp", species |-> "S3",
      terms |-> {[sign |-> 1, flux |-> "S2"]}]}

\* lines 34-48: the 'single' branch
BulkEqsSingleOwnFlux ==
    {[name |-> "S1_reactor_ivp", species |-> "S1",
      terms |-> {[sign |-> -1, flux |-> "S1"]}],
     [name |-> "S2_reactor_ivp", species |-> "S2",
      terms |-> {[sign |-> 1, flux |-> "S1"], [sign |-> -1, flux |-> "S2"]}],
     [name |-> "S3_reactor_ivp", species |-> "S3",
      terms |-> {[sign |-> 1, flux |-> "S3"]}]}

BulkEqsSingle ==
    {[name |-> "S1_reactor_ivp", species |-> "S1",
      terms |-> {[sign |-> -1, flux |-> "S1"]}],
     [name |-> "S2_reactor_ivp", species |-> "S2",
      terms |-> {[sign |-> 1, flux |-> "S1"], [sign |-> -1, flux |-> "S2"]}],
     [name |-> "S3_reactor_ivp", species |-> "S3",
      terms |-> {[sign |-> 1, flux |-> "S2"]}]}

InitialConditions ==
    {[name |-> "ic_S_0", species |-> c, at |-> "0", rhs |-> "S_initial"] : c \in Components}

add_reactor_odes(m, immobilization) ==
    IF immobilization = "co-immobilization"
    THEN [model |-> [m EXCEPT !.bulk_eqs = BulkEqsCoImmobilization,
                              !.ics = InitialConditions],
          error |-> "none"]
    ELSE IF immobilization = "single"
    THEN [model |-> [m EXCEPT !.bulk_eqs = BulkEqsSingle, !.ics = InitialConditions],
          error |-> "none"]
    ELSE [model |-> m, error |-> "InvalidTopologyError"]

(***************************************************************************)
(* main.py: build_reactor_model.  The result is the model returned, or the *)
(* error raised, the callee that raised it, the model that callee was      *)
(* given and the model as it left it.                                      *)
(***************************************************************************)
build_reactor_model(immobilization, decay_coef, bvp_kwargs) ==
    LET m0 == NewModel
        r1 == add_bvp_constraints(m0, immobilization, decay_coef, bvp_kwargs)
        r2 == add_reactor_odes(r1.model, immobilization)
    IN  IF r1.error # "none"
        THEN [model |-> NoModel, error |-> r1.error, raised_in |-> "add_bvp_constraints",
              given |-> m0, left |-> r1.model]
        ELSE IF r2.error # "none"
        THEN [model |-> NoModel, error |-> r2.error, raised_in |-> "add_reactor_odes",
              given |-> r1.model, left |-> r2.model]
        ELSE [model |-> r2.model, error |-> "none", raised_in |-> "none",
              given |-> NoModel, left |-> NoModel]


(***************************************************************************)
(* solve.py.  The collocation transformation (pyomo.dae) refuses a         *)
(* ContinuousSet that already carries a discretization scheme and leaves   *)
(* the model as it was; otherwise it records scheme, nfe and ncp.          *)
(***************************************************************************)
EmptyOptions ==
    [max_iter |-> 0, tol |-> 0, constr_viol_tol |-> 0, acceptable_tol |-> 0,
     acceptable_iter |-> 0, mu_strategy |-> "", mu_init |-> 0,
     bound_relax_factor |-> 0, honor_original_bounds |-> "",
     nlp_scaling_method |-> "", obj_scaling_factor |-> 0, print_level |-> 0,
     linear_solver |-> ""]

\* solve.py:71-86
PrimaryOptions(max_iter, tol, verbose) ==
    [max_iter |-> max_iter, tol |-> tol, constr_viol_tol |-> tol,
     acceptable_tol |-> 10000, acceptable_iter |-> 5, mu_strategy |-> "adaptive",
     mu_init |-> 1000, bound_relax_factor |-> 1, honor_original_bounds |-> "no",
     nlp_scaling_method |-> "gradient-based", obj_scaling_factor |-> 1,
     print_level |-> IF verbose THEN 5 ELSE 0, linear_solver |-> "mumps"]

\* a relaxation that loosens the constraint violation tolerance as well
RelaxedOptionsLoosenViolation(solver_options) ==
    [solver_options EXCEPT !.max_iter = 5000, !.tol = 10000, !.mu_init = 100000,
                           !.bound_relax_factor = 100, !.constr_viol_tol = 10000]

\* solve.py:97-102
RelaxedOptions(solver_options) ==
    [solver_options EXCEPT !.max_iter = 5000, !.tol = 10000, !.mu_init = 100000,
                           !.bound_relax_factor = 100]

\* discretizer.apply_to(model, wrt=..., nfe=..., ncp=...)
ApplyCollocationAgain(ds, nfe, ncp) ==
    [error |-> "none",
     set |-> [scheme |-> "LAGRANGE-RADAU", nfe |-> nfe, ncp |-> ncp]]

ApplyCollocation(ds, nfe, ncp) ==
    IF ds.scheme # "none"
    THEN [error |-> "DiscretizationError", set |-> ds]
    ELSE [error |-> "none",
          set |-> [scheme |-> "LAGRANGE-RADAU", nfe |-> nfe, ncp |-> ncp]]

\* the two domains discretized in the other order
DiscretizePoreFirst(m, time_nfe, time_ncp, x_nfe, x_ncp) ==
    LET x  == ApplyCollocation(m.x, x_nfe, x_ncp)
        m1 == [m EXCEPT !.x = x.set]
        t  == ApplyCollocation(m1.time, time_nfe, time_ncp)
        m2 == [m1 EXCEPT !.time = t.set]
        ev(wrt, nfe, ncp) == [op |-> "discretize", wrt |-> wrt, nfe |-> nfe,
                              ncp |-> ncp, options |-> EmptyOptions,
                              outcome |-> "none"]
    IN  IF x.error # "none"
        THEN [model |-> m, error |-> x.error, events |-> <<>>]
        ELSE IF t.error # "none"
        THEN [model |-> m1, error |-> t.error,
              events |-> <<ev("x", x_nfe, x_ncp)>>]
        ELSE [model |-> m2, error |-> "none",
              events |-> <<ev("x", x_nfe, x_ncp), ev("time", time_nfe, time_ncp)>>]

\* solve.py:19-21 and 61-63: time first, then x
Discretize(m, time_nfe, time_ncp, x_nfe, x_ncp) ==
    LET t  == ApplyCollocation(m.time, time_nfe, time_ncp)
        m1 == [m EXCEPT !.time = t.set]
        x  == ApplyCollocation(m1.x, x_nfe, x_ncp)
        m2 == [m1 EXCEPT !.x = x.set]
        ev(wrt, nfe, ncp) == [op |-> "discretize", wrt |-> wrt, nfe |-> nfe,
                              ncp |-> ncp, options |-> EmptyOptions,
                              outcome |-> "none"]
    IN  IF t.error # "none"
        THEN [model |-> m, error |-> t.error, events |-> <<>>]
        ELSE IF x.error # "none"
        THEN [model |-> m1, error |-> x.error,
              events |-> <<ev("time", time_nfe, time_ncp)>>]
        ELSE [model |-> m2, error |-> "none",
              events |-> <<ev("time", time_nfe, time_ncp), ev("x", x_nfe, x_ncp)>>]

\* what solver.solve can do: return results with a termination condition,
\* or raise
Terminations == {"optimal", "infeasible", "maxIterations", "error"}
Outcomes == Terminations \cup {"raise"}

SolveEvent(options, outcome) ==
    [op |-> "solve", wrt |-> "none", nfe |-> 0, ncp |-> 0, options |-> options,
     outcome |-> outcome]

\* solve.py:90-92: the except clause around the first solver.solve
RetryNeededNonOptimal(outcome) == outcome # "optimal"

RetryNeeded(outcome) == outcome = "raise"

NoCall ==
    [fn |-> "none", max_iter |-> 0, tol |-> 0, verbose |-> FALSE, events |-> <<>>,
     outcome |-> "none", error |-> "none", status |-> "none", before |-> NoModel]

\* solve.py:35-112.  o1 and o2 are what the solver does on the first and on
\* the second invocation.  The result is the model as the call leaves it
\* and the record of the call.
solve_model_robust(m, max_iter, tol, verbose, o1, o2) ==
    LET d  == Discretize(m, 60, 2, 20, 3)
        solver_options == PrimaryOptions(max_iter, tol, verbose)
        first  == SolveEvent(solver_options, o1)
        second == SolveEvent(RelaxedOptions(solver_options), o2)
        rec == [NoCall EXCEPT !.fn = "solve_model_robust", !.max_iter = max_iter,
                              !.tol = tol, !.verbose = verbose, !.before = m]
    IN  IF d.error # "none"
        THEN [model |-> d.model,
              call |-> [rec EXCEPT !.events = d.events, !.outcome = "raised",
                                   !.error = d.error]]
        ELSE IF ~RetryNeeded(o1)
        THEN [model |-> [d.model EXCEPT !.solved = TRUE],
              call |-> [rec EXCEPT !.events = d.events \o <<first>>,
                                   !.outcome = "returned", !.status = o1]]
        ELSE IF o2 = "raise"
        THEN [model |-> d.model,
              call |-> [rec EXCEPT !.events = d.events \o <<first, second>>,
                                   !.outcome = "raised", !.error = "SolveFailure"]]
        ELSE [model |-> [d.model EXCEPT !.solved = TRUE],
              call |-> [rec EXCEPT !.events = d.events \o <<first, second>>,
                                   !.outcome = "returned", !.status = o2]]

\* solve.py:5-33
solve_model(m, o1) ==
    LET d   == Discretize(m, 40, 2, 20, 3)
        rec == [NoCall EXCEPT !.fn = "solve_model", !.verbose = TRUE, !.before = m]
        first == SolveEvent(EmptyOptions, o1)
    IN  IF d.error # "none"
        THEN [model |-> d.model,
              call |-> [rec EXCEPT !.events = d.events, !.outcome = "raised",
                                   !.error = d.error]]
        ELSE IF o1 = "raise"
        THEN [model |-> d.model,
              call |-> [rec EXCEPT !.events = d.events \o <<first>>,
                                   !.outcome = "raised", !.error = "SolveFailure"]]
        ELSE [model |-> [d.model EXCEPT !.solved = TRUE],
              call |-> [rec EXCEPT !.events = d.events \o <<first>>,
                                   !.outcome = "returned", !.status = o1]]


(***************************************************************************)
(* Inputs                                                                  *)
(***************************************************************************)
MaxFraction == 11      \* fractions range over -1 .. MaxFraction (tenths)
MaxDecayRate == 1      \* decay rate constants range over -1 .. MaxDecayRate

Topologies == {"single", "co-immobilization", "mixed", "Single"}

Shapes == {"linear", "step", "exp"}

StartEnds == {-1, 0, 5, 10, MaxFraction}

StepFractions == -1 .. MaxFraction

DecayDicts ==
    {EmptyDict}
    \cup {("kA" :> a) @@ ("kB" :> b) : a \in -1 .. MaxDecayRate, b \in 0 .. MaxDecayRate}

\* the keyword arguments of a direct call of the profile builder
StepKwargs ==
    {EmptyDict, "smoothness" :> 10}
    \cup {("x_step_up" :> u) : u \in StepFractions}
    \cup {("x_step_down" :> d) : d \in StepFractions}
    \cup {("x_step_up" :> u) @@ ("x_step_down" :> d) @@ ("smoothness" :> sm)
            : u \in StepFractions, d \in StepFractions, sm \in {-100, 10, 100}}

\* enzyme dicts of a profile configuration: valid ones, and one for every
\* way of being invalid
ValidEnzymes ==
    {EmptyEnzyme,
     [fun |-> "linear", num |-> ("start" :> 10) @@ ("end" :> 0)],
     [fun |-> "linear", num |-> ("start" :> 10) @@ ("end" :> 10)],
     [fun |-> "linear", num |-> ("start" :> 0) @@ ("end" :> 0)],
     [fun |-> "linear", num |-> ("x_step_up" :> 7) @@ ("x_step_down" :> 3)],
     [fun |-> "step", num |-> EmptyDict],
     [fun |-> "step", num |-> ("start" :> 0) @@ ("end" :> 10) @@ ("x_step_up" :> 3)
                              @@ ("x_step_down" :> 7) @@ ("smoothness" :> 100)],
     [fun |-> "step", num |-> ("start" :> 5) @@ ("end" :> 10) @@ ("x_step_up" :> 0)
                              @@ ("x_step_down" :> 5) @@ ("smoothness" :> 50)]}

InvalidEnzymes ==
    {[fun |-> "exp", num |-> EmptyDict],
     [fun |-> "exp", num |-> ("start" :> MaxFraction)],
     [fun |-> "linear", num |-> ("start" :> MaxFraction)],
     [fun |-> "absent", num |-> ("end" :> -1)],
     [fun |-> "step", num |-> ("x_step_up" :> 7) @@ ("x_step_down" :> 3)],
     [fun |-> "step", num |-> ("x_step_up" :> 5) @@ ("x_step_down" :> 5)],
     [fun |-> "step", num |-> ("x_step_up" :> -1)],
     [fun |-> "step", num |-> ("x_step_down" :> MaxFraction)]}

Enzymes == ValidEnzymes \cup InvalidEnzymes

BaseEnzymes == {EmptyEnzyme, [fun |-> "linear", num |-> ("start" :> 10) @@ ("end" :> 10)]}

Kwargs(default_fun, adjust_Np, enzymeA, enzymeB) ==
    [given |-> TRUE, default_fun |-> default_fun, adjust_Np |-> adjust_Np,
     enzymeA |-> enzymeA, enzymeB |-> enzymeB]

AllKwargs ==
    {NoneKwargs}
    \cup {Kwargs(f, adj, a, b) :
            f \in {"absent", "step", "exp"}, adj \in {"absent", "True", "False"},
            a \in Enzymes, b \in BaseEnzymes}
    \cup {Kwargs(f, adj, a, b) :
            f \in {"absent", "step", "exp"}, adj \in {"absent", "True", "False"},
            a \in BaseEnzymes, b \in Enzymes}

SomeKwargs ==
    {NoneKwargs,
     Kwargs("absent", "absent", EmptyEnzyme, EmptyEnzyme),
     Kwargs("linear", "True", EmptyEnzyme, EmptyEnzyme),
     Kwargs("exp", "False", EmptyEnzyme, EmptyEnzyme)}

SomeDecayDicts == {EmptyDict, ("kA" :> 1) @@ ("kB" :> 1)}

\* tolerances 1e-8, 1e-6, 1e-4 (main.py:74) and 1e-3
Tolerances == {1, 100, 10000, 100000}

\* values of the maximum density parameter, 0 included
MaxEnzyme == 5

\* profile expressions handed to a direct coefficient computation
CoefExpressions ==
    {enzyme_profile_rule("EA", start, end, fun, kwargs).expr :
        start \in {0, 5, 10}, end \in {0, 5, 10}, fun \in {"linear", "step"},
        kwargs \in {EmptyDict,
                    ("x_step_up" :> 0) @@ ("x_step_down" :> 5) @@ ("smoothness" :> 50)}}

MaxIters == {1000, 5000}

(***************************************************************************)
(* State                                                                   *)
(***************************************************************************)
NoBuilt ==
    [outcome |-> "none", error |-> "none", raised_in |-> "none",
     immobilization |-> "none", decay_coef |-> EmptyDict, bvp_kwargs |-> NoneKwargs,
     given |-> NoModel, left |-> NoModel]

NoProfileCall ==
    [version |-> "none", E_max |-> "none", start |-> 0, end |-> 0, fun |-> "none",
     kwargs |-> EmptyDict, error |-> "none", expr |-> NoExpr]

(***************************************************************************)
(* mof-model: params_initialization.load_parameters_alpha and the domain   *)
(* creation that follows it in build_reactor_model.  A configuration is    *)
(* the set of module attributes config.py defines, the set of entries its  *)
(* dicts hold, and the two domain bounds.                                  *)
(***************************************************************************)
REACTION_TIME == 480

ConfigAttributes ==
    {"INITIAL_SUBSTRATE_CONC", "REACTION_TIME", "PORES_COUNT", "PORE_LENGTH",
     "PORE_AREA", "MAX_ENZYME_SURFACE_DENSITY", "REACTION_CONST",
     "MICHAELIS_MENTEN_CONST", "DIFFUSIFITY_CONST"}

ConfigEntries ==
    {<<"INITIAL_SUBSTRATE_CONC", "S1_0">>, <<"INITIAL_SUBSTRATE_CONC", "S2_0">>,
     <<"INITIAL_SUBSTRATE_CONC", "S3_0">>,
     <<"MAX_ENZYME_SURFACE_DENSITY", "Enzyme_A">>,
     <<"MAX_ENZYME_SURFACE_DENSITY", "Enzyme_B">>,
     <<"REACTION_CONST", "Enzyme_A">>, <<"REACTION_CONST", "Enzyme_B">>,
     <<"MICHAELIS_MENTEN_CONST", "Enzyme_A">>, <<"MICHAELIS_MENTEN_CONST", "Enzyme_B">>}

\* config.py as it is in the repository
DefaultConfig ==
    [attrs |-> ConfigAttributes, entries |-> ConfigEntries,
     REACTION_TIME |-> REACTION_TIME, PORE_LENGTH |-> PORE_LENGTH]

\* the reads of config in load_parameters_alpha, in source order: the
\* attribute, the dict entries read from it, the error a missing entry gives
LoadReads ==
    <<[attr |-> "INITIAL_SUBSTRATE_CONC", keys |-> {"S1_0", "S2_0", "S3_0"},
       error |-> "ValueError"],
      [attr |-> "REACTION_TIME", keys |-> {}, error |-> "none"],
      [attr |-> "PORES_COUNT", keys |-> {}, error |-> "none"],
      [attr |-> "PORE_LENGTH", keys |-> {}, error |-> "none"],
      [attr |-> "PORE_AREA", keys |-> {}, error |-> "none"],
      [attr |-> "MAX_ENZYME_SURFACE_DENSITY", keys |-> {"Enzyme_A"}, error |-> "KeyError"],
      [attr |-> "MAX_ENZYME_SURFACE_DENSITY", keys |-> {"Enzyme_B"}, error |-> "KeyError"],
      [attr |-> "REACTION_CONST", keys |-> {"Enzyme_A"}, error |-> "KeyError"],
      [attr |-> "REACTION_CONST", keys |-> {"Enzyme_B"}, error |-> "KeyError"],
      [attr |-> "MICHAELIS_MENTEN_CONST", keys |-> {"Enzyme_A"}, error |-> "KeyError"],
      [attr |-> "MICHAELIS_MENTEN_CONST", keys |-> {"Enzyme_B"}, error |-> "KeyError"],
      [attr |-> "DIFFUSIFITY_CONST", keys |-> {}, error |-> "none"]>>

ReadError(config, rd) ==
    IF rd.attr \notin config.attrs THEN "AttributeError"
    ELSE IF \E k \in rd.keys : <<rd.attr, k>> \notin config.entries THEN rd.error
    ELSE "none"

\* params_initialization.py:5-37: the first read that fails raises; the
\* values are stored as they are
load_parameters_alpha(config) ==
    LET failing == {i \in DOMAIN LoadReads : ReadError(config, LoadReads[i]) # "none"}
        first   == CHOOSE i \in failing : \A j \in failing : i <= j
    IN  IF failing # {}
        THEN [error |-> ReadError(config, LoadReads[first]), tf |-> 0, L |-> 0,
              loaded |-> FALSE]
        ELSE [error |-> "none", tf |-> config.REACTION_TIME, L |-> config.PORE_LENGTH,
              loaded |-> TRUE]

\* what dae.ContinuousSet(bounds=(0, upper)) can do: with a positive upper
\* bound the domain is created; with a non-positive one the library either
\* refuses the bounds or creates a degenerate domain
DomainOutcomes(upper) ==
    IF upper > 0 THEN {"created"} ELSE {"created", "ValueError"}

NoLoadCall ==
    [called |-> FALSE, config |-> DefaultConfig, error |-> "none", loaded |-> FALSE,
     tf |-> 0, L |-> 0, time |-> "none", x |-> "none"]

\* values of a domain bound: negative, zero, positive
BoundValues(default) == {-1, 0, default}

\* configurations with at most one attribute and one dict entry missing
Configs ==
    {[attrs |-> ConfigAttributes \ a, entries |-> ConfigEntries \ e,
      REACTION_TIME |-> tf, PORE_LENGTH |-> L] :
        a \in {{}} \cup {{k} : k \in ConfigAttributes},
        e \in {{}} \cup {{k} : k \in ConfigEntries},
        tf \in BoundValues(REACTION_TIME), L \in BoundValues(PORE_LENGTH)}

(***************************************************************************)
(* application_examples/enzyme_ratio_optimization.py:                      *)
(* run_enzyme_ratio_study.  test_model is the local variable of the loop:  *)
(* the model object and the number (id) of the ConcreteModel instance it   *)
(* is, instances the number of instances created so far.  trace records,   *)
(* per sweep point, the instance built, the instance handed to the solver  *)
(* (0: none) and the termination condition the solver returned.            *)
(***************************************************************************)
\* lines 19-25
DefaultTemplate ==
    [given |-> TRUE, default_fun |-> "linear", adjust_Np |-> "False",
     enzymeA |-> [fun |-> "linear", num |-> ("start" :> 10) @@ ("end" :> 0)],
     enzymeB |-> [fun |-> "linear", num |-> ("start" :> 0) @@ ("end" :> 10)]]

NoTestModel == [id |-> 0, model |-> NoModel]

NoStudy ==
    [started |-> FALSE, returned |-> FALSE, decay_coef |-> EmptyDict,
     bvp_kwargs_template |-> NoneKwargs, total_enzyme |-> 0, num_points |-> 0,
     i |-> 0, instances |-> 0, test_model |-> NoTestModel,
     results |-> <<>>, trace |-> <<>>]

\* lines 12-30: the state at the head of the loop
run_enzyme_ratio_study(decay_coef, bvp_kwargs_template, total_enzyme, num_points) ==
    [NoStudy EXCEPT !.started = TRUE, !.decay_coef = decay_coef,
                    !.bvp_kwargs_template =
                        IF bvp_kwargs_template.given THEN bvp_kwargs_template
                        ELSE DefaultTemplate,
                    !.total_enzyme = total_enzyme, !.num_points = num_points]

\* line 30: np.linspace(0.1 * total_enzyme, 0.9 * total_enzyme, num_points)[i]
\* (the sweeps of the model have integer points)
EA_value(total_enzyme, num_points, i) ==
    IF num_points = 1 THEN total_enzyme \div 10
    ELSE (total_enzyme * (num_points - 1) + 8 * total_enzyme * i)
            \div (10 * (num_points - 1))

\* lines 67-79, 84-96, 104-116
ConfigInfo(i, EA_max, EB_max, converged, solver_status) ==
    [config_id |-> i, EA_max |-> EA_max, EB_max |-> EB_max,
     converged |-> converged, solver_status |-> solver_status]

\* a loop body that builds only when it holds no model yet
SweepPointReusingModel(st, set_value, o1, o2) ==
    LET i      == st.i
        EA_max == EA_value(st.total_enzyme, st.num_points, i)
        EB_max == st.total_enzyme - EA_max
        b      == build_reactor_model("co-immobilization", st.decay_coef,
                                      st.bvp_kwargs_template)
        fresh  == st.test_model.id = 0
        id     == IF fresh THEN st.instances + 1 ELSE st.test_model.id
        base   == IF fresh THEN b.model ELSE st.test_model.model
        m1     == [base EXCEPT !.EA = EA_max, !.EB = EB_max]
        s      == solve_model_robust(m1, 5000, 100, FALSE, o1, o2)
        done(tm, n, info, tr) ==
            [st EXCEPT !.i = i + 1, !.instances = n, !.test_model = tm,
                       !.results = Append(@, info), !.trace = Append(@, tr)]
        failed(msg) == ConfigInfo(i, EA_max, EB_max, FALSE, msg)
    IN  IF b.error # "none"
        THEN done(st.test_model, st.instances, failed(b.error),
                  [built |-> 0, solved |-> 0, termination |-> "none"])
        ELSE IF set_value # "ok"
        THEN done([id |-> id, model |-> base], id, failed(set_value),
                  [built |-> id, solved |-> 0, termination |-> "none"])
        ELSE IF s.call.outcome = "raised"
        THEN done([id |-> id, model |-> s.model], id, failed(s.call.error),
                  [built |-> id, solved |-> id, termination |-> "none"])
        ELSE done([id |-> id, model |-> s.model], id,
                  ConfigInfo(i, EA_max, EB_max, s.call.status = "optimal",
                             s.call.status),
                  [built |-> id, solved |-> id, termination |-> s.call.status])

\* lines 32-118: one pass of the loop body.  set_value is what
\* test_model.EA.set_value does ("ok", or the error it raises when the
\* parameter is not mutable); o1, o2 are what the solver does.
SweepPoint(st, set_value, o1, o2) ==
    LET i      == st.i
        EA_max == EA_value(st.total_enzyme, st.num_points, i)
        EB_max == st.total_enzyme - EA_max
        b      == build_reactor_model("co-immobilization", st.decay_coef,
                                      st.bvp_kwargs_template)
        id     == st.instances + 1
        m1     == [b.model EXCEPT !.EA = EA_max, !.EB = EB_max]
        s      == solve_model_robust(m1, 5000, 100, FALSE, o1, o2)
        done(tm, info, tr) ==
            [st EXCEPT !.i = i + 1, !.instances = id, !.test_model = tm,
                       !.results = Append(@, info), !.trace = Append(@, tr)]
        failed(msg) == ConfigInfo(i, EA_max, EB_max, FALSE, msg)
    IN  IF b.error # "none"
        THEN \* the exception leaves test_model as it was
             done(st.test_model, failed(b.error),
                  [built |-> 0, solved |-> 0, termination |-> "none"])
        ELSE IF set_value # "ok"
        THEN done([id |-> id, model |-> b.model], failed(set_value),
                  [built |-> id, solved |-> 0, termination |-> "none"])
        ELSE IF s.call.outcome = "raised"
        THEN done([id |-> id, model |-> s.model], failed(s.call.error),
                  [built |-> id, solved |-> id, termination |-> "none"])
        ELSE done([id |-> id, model |-> s.model],
                  ConfigInfo(i, EA_max, EB_max, s.call.status = "optimal",
                             s.call.status),
                  [built |-> id, solved |-> id, termination |-> s.call.status])

\* sweep sizes, and total enzyme amounts whose sweep points are integers
MaxPoints == 3

TotalEnzymes == {30}

SetValueOutcomes == {"ok", "TypeError"}

(***************************************************************************)
(* mof-model: model/pore_concentration_profile.py,                         *)
(* model/reactor_concentration_profile.py and main.py.  The reaction terms *)
(* carry no decay factor ("none").                                         *)
(***************************************************************************)
\* mof-model pore_concentration_profile.py:16-27
MofAlphaPoreEqs ==
    {[name |-> "typeA_pore_bvp", species |-> "S1",
      terms |-> {[sign |-> 1, E |-> "EA", decay |-> "none", k |-> "kA", S |-> "S1"]}],
     [name |-> "typeB_pore_bvp", species |-> "S2",
      terms |-> {[sign |-> 1, E |-> "EB", decay |-> "none", k |-> "kB", S |-> "S2"]}]}

\* mof-model pore_concentration_profile.py:37-53
MofMixedPoreEqs ==
    LET termA(sg) == [sign |-> sg, E |-> "EA_x_profile", decay |-> "none",
                      k |-> "kA", S |-> "S1"]
        termB(sg) == [sign |-> sg, E |-> "EB_x_profile", decay |-> "none",
                      k |-> "kA", S |-> "S2"]
    IN  {[name |-> "S1_mixed_pore_bvp", species |-> "S1", terms |-> {termA(1)}],
         [name |-> "S2_mixed_pore_bvp", species |-> "S2", terms |-> {termB(1), termA(-1)}],
         [name |-> "S3_mixed_pore_bvp", species |-> "S3", terms |-> {termB(1)}]}

\* mof-model pore_concentration_profile.py:57-64
MofBoundaryConditions ==
    {[name |-> "bc1", species |-> c, lhs |-> "S_n", at |-> "0", rhs |-> "S_0"]
        : c \in Components}
    \cup
    {[name |-> "bc2", species |-> c, lhs |-> "dS_ndx", at |-> "L", rhs |-> "0"]
        : c \in Components}

\* mof-model pore_concentration_profile.py:12-72.  The decay argument is
\* not read; a sid that is none of alpha, gamma, delta falls through both
\* branches.
add_bvp_constraints_mof(m, sid, decay) ==
    LET start_A == IF sid = "gamma" THEN 10 ELSE 0
        rA == enzyme_profile_rule_mof("EA", start_A, 10 - start_A, "linear", EmptyDict)
        rB == enzyme_profile_rule_mof("EB", 10 - start_A, start_A, "linear", EmptyDict)
        m1 == IF sid = "alpha"
              THEN [m EXCEPT !.pore_eqs = MofAlphaPoreEqs]
              ELSE IF sid \in {"gamma", "delta"}
              THEN [m EXCEPT !.EA_x_profile = rA.expr, !.EB_x_profile = rB.expr,
                             !.pore_eqs = MofMixedPoreEqs]
              ELSE m
    IN  [model |-> [m1 EXCEPT !.bcs = MofBoundaryConditions,
                              !.flux = Flux("0", Ratio(1, 1), UnreadSet)],
         error |-> "none"]

\* mof-model reactor_concentration_profile.py:5-26
add_reactor_odes_mof(m) ==
    [model |-> [m EXCEPT !.bulk_eqs =
                    {[name |-> "S1_reactor_ivp", species |-> "S1",
                      terms |-> {[sign |-> -1, flux |-> "S1"]}],
                     [name |-> "S2_reactor_ivp", species |-> "S2",
                      terms |-> {[sign |-> 1, flux |-> "S1"], [sign |-> -1, flux |-> "S2"]}],
                     [name |-> "S3_reactor_ivp", species |-> "S3",
                      terms |-> {[sign |-> 1, flux |-> "S2"]}]},
                !.ics = InitialConditions],
     error |-> "none"]

\* mof-model main.py:11-38
build_reactor_model_mof(sid, decay) ==
    LET r1 == add_bvp_constraints_mof(NewModel, sid, decay)
        r2 == add_reactor_odes_mof(r1.model)
    IN  IF r1.error # "none" THEN [model |-> NoModel, error |-> r1.error]
        ELSE [model |-> r2.model, error |-> r2.error]

Sids == {"alpha", "gamma", "delta", "beta"}

NoMofBuilt ==
    [outcome |-> "none", error |-> "none", sid |-> "none", decay |-> FALSE,
     model |-> NoModel]

NoCoefCall ==
    [called |-> FALSE, x_values |-> {}, raising |-> {}, expr |-> NoExpr,
     E |-> 0, coef |-> Ratio(0, 1)]

Init ==
    /\ model = NoModel
    /\ built = NoBuilt
    /\ call = NoCall
    /\ profileCall = NoProfileCall
    /\ coefCall = NoCoefCall
    /\ mofBuilt = NoMofBuilt
    /\ study = NoStudy
    /\ loadCall = NoLoadCall

(***************************************************************************)
(* Actions                                                                 *)
(***************************************************************************)
\* test_model = build_reactor_model(immobilization, decay_coef, bvp_kwargs=...)
BuildWith(immobilization, decay_coef, bvp_kwargs) ==
    LET r == build_reactor_model(immobilization, decay_coef, bvp_kwargs)
    IN  /\ model' = r.model
        /\ built' = [outcome |-> IF r.error = "none" THEN "returned" ELSE "raised",
                     error |-> r.error, raised_in |-> r.raised_in,
                     immobilization |-> immobilization,
                     decay_coef |-> decay_coef, bvp_kwargs |-> bvp_kwargs,
                     given |-> r.given, left |-> r.left]
        /\ call' = NoCall
        /\ UNCHANGED <<profileCall, coefCall, loadCall, study, mofBuilt>>

Build ==
    \E immobilization \in Topologies, decay_coef \in SomeDecayDicts,
       bvp_kwargs \in SomeKwargs :
        BuildWith(immobilization, decay_coef, bvp_kwargs)

\* one build from the initial state, over the whole input space
BuildAny ==
    /\ built.outcome = "none"
    /\ \E immobilization \in Topologies, decay_coef \in DecayDicts,
       bvp_kwargs \in AllKwargs :
          BuildWith(immobilization, decay_coef, bvp_kwargs)

\* solve_model_robust(test_model, max_iter, tol, verbose)
SolveRobust ==
    /\ model.exists
    /\ \E max_iter \in MaxIters, tol \in Tolerances, verbose \in BOOLEAN,
          o1 \in Outcomes :
        \E o2 \in IF RetryNeeded(o1) THEN Outcomes ELSE {"none"} :
        LET r == solve_model_robust(model, max_iter, tol, verbose, o1, o2)
        IN  /\ model' = r.model
            /\ call' = r.call
    /\ UNCHANGED <<built, profileCall, coefCall, loadCall, study, mofBuilt>>

\* solve_model(test_model)
SolvePlain ==
    /\ model.exists
    /\ \E o1 \in Outcomes :
        LET r == solve_model(model, o1)
        IN  /\ model' = r.model
            /\ call' = r.call
    /\ UNCHANGED <<built, profileCall, coefCall, loadCall, study, mofBuilt>>

\* enzyme_profile_rule(model, E_max, start, end, fun, **kwargs)
ProfileCall ==
    /\ profileCall.version = "none"
    /\ \E E_max \in {"EA", "EB"}, start \in StartEnds, end \in StartEnds,
          fun \in Shapes, kwargs \in StepKwargs :
        LET r == enzyme_profile_rule(E_max, start, end, fun, kwargs)
        IN  profileCall' = [version |-> "pyomo-enzyme-cascade", E_max |-> E_max,
                            start |-> start, end |-> end, fun |-> fun,
                            kwargs |-> kwargs, error |-> r.error, expr |-> r.expr]
    /\ UNCHANGED <<model, built, call, coefCall, loadCall, study, mofBuilt>>

\* the same call on mof-model's version of the builder
ProfileCallMof ==
    /\ profileCall.version = "none"
    /\ \E E_max \in {"EA", "EB"}, start \in StartEnds, end \in StartEnds,
          fun \in Shapes :
        LET r == enzyme_profile_rule_mof(E_max, start, end, fun, EmptyDict)
        IN  profileCall' = [version |-> "mof-model", E_max |-> E_max,
                            start |-> start, end |-> end, fun |-> fun,
                            kwargs |-> EmptyDict, error |-> r.error, expr |-> r.expr]
    /\ UNCHANGED <<model, built, call, coefCall, loadCall, study, mofBuilt>>

\* calculate_pore_count_coefficient(model, E_profile_expression, E_max) on a
\* model whose x holds x_values and whose E_max has the value E
CoefCall ==
    /\ ~coefCall.called
    /\ \E x_values \in SUBSET (0 .. PORE_LENGTH), expr \in CoefExpressions,
          E \in 0 .. MaxEnzyme :
        \E raising \in SUBSET x_values :
            coefCall' = [called |-> TRUE, x_values |-> x_values,
                         raising |-> raising, expr |-> expr, E |-> E,
                         coef |-> calculate_pore_count_coefficient(
                                      x_values, raising, expr, E)]
    /\ UNCHANGED <<model, built, call, profileCall, loadCall, study, mofBuilt>>

\* mof-model main.py:19-23: load_parameters_alpha(model), then model.time
\* and model.x
LoadParameters ==
    /\ ~loadCall.called
    /\ \E config \in Configs :
        LET r == load_parameters_alpha(config)
        IN  \E time \in IF r.loaded THEN DomainOutcomes(r.tf) ELSE {"none"} :
            \E x \in IF r.loaded /\ time = "created" THEN DomainOutcomes(r.L)
                     ELSE {"none"} :
                loadCall' = [called |-> TRUE, config |-> config, error |-> r.error,
                             loaded |-> r.loaded, tf |-> r.tf, L |-> r.L,
                             time |-> time, x |-> x]
    /\ UNCHANGED <<model, built, call, profileCall, coefCall, study, mofBuilt>>

\* run_enzyme_ratio_study(decay_coef, bvp_kwargs_template, total_enzyme,
\* num_points): up to the head of the loop
StartStudy ==
    /\ ~study.started
    /\ \E decay_coef \in SomeDecayDicts, bvp_kwargs_template \in SomeKwargs,
          total_enzyme \in TotalEnzymes, num_points \in 0 .. MaxPoints :
        study' = run_enzyme_ratio_study(decay_coef, bvp_kwargs_template,
                                        total_enzyme, num_points)
    /\ UNCHANGED <<model, built, call, profileCall, coefCall, loadCall, mofBuilt>>

\* one pass of the loop of run_enzyme_ratio_study
StudyPoint ==
    /\ study.started /\ ~study.returned
    /\ study.i < study.num_points
    /\ \E set_value \in SetValueOutcomes, o1 \in Outcomes :
        \E o2 \in IF RetryNeeded(o1) THEN Outcomes ELSE {"none"} :
            study' = SweepPoint(study, set_value, o1, o2)
    /\ UNCHANGED <<model, built, call, profileCall, coefCall, loadCall, mofBuilt>>

\* lines 120-132: the loop is over, the results are returned
StudyReturn ==
    /\ study.started /\ ~study.returned
    /\ study.i = study.num_points
    /\ study' = [study EXCEPT !.returned = TRUE]
    /\ UNCHANGED <<model, built, call, profileCall, coefCall, loadCall, mofBuilt>>

\* mof-model: test_model = build_reactor_model(sid, decay)
BuildMof ==
    /\ \E sid \in Sids, decay \in BOOLEAN :
        LET r == build_reactor_model_mof(sid, decay)
        IN  mofBuilt' = [outcome |-> IF r.error = "none" THEN "returned" ELSE "raised",
                         error |-> r.error, sid |-> sid, decay |-> decay,
                         model |-> r.model]
    /\ UNCHANGED <<model, built, call, profileCall, coefCall, loadCall, study>>

Next == Build \/ SolveRobust \/ SolvePlain

Spec == Init /\ [][Next]_vars

NextBuild == BuildAny

SpecBuild == Init /\ [][NextBuild]_vars

NextProfile == ProfileCall \/ ProfileCallMof

SpecProfile == Init /\ [][NextProfile]_vars

NextCoef == CoefCall

SpecCoef == Init /\ [][NextCoef]_vars


(***************************************************************************)
(* Properties of the solve orchestration (solve.py), under Spec            *)
(***************************************************************************)
IsSolve(e) == e.op = "solve"

\* the solver invocations of a call, in order
Invocations(c) == SelectSeq(c.events, IsSolve)

Discretized(m) == m.time.scheme # "none" \/ m.x.scheme # "none"

\* Built -> Discretized -> Solved
Stage(m) ==
    IF ~m.exists THEN "none"
    ELSE IF m.solved THEN "Solved"
    ELSE IF Discretized(m) THEN "Discretized"
    ELSE "Built"

StageRank(m) ==
    CASE Stage(m) = "none" -> 0
      [] Stage(m) = "Built" -> 1
      [] Stage(m) = "Discretized" -> 2
      [] Stage(m) = "Solved" -> 3

RaisedTwice(c) ==
    /\ c.fn = "solve_model_robust"
    /\ Len(Invocations(c)) = 2
    /\ Invocations(c)[1].outcome = "raise"
    /\ Invocations(c)[2].outcome = "raise"

\* C1: a call of solve_model_robust in which the solver raised on the
\* primary attempt and again on the relaxed attempt still returns
\* (model, status), with a non-optimal status, instead of raising.
C1_NeverRaisesPastRetry ==
    RaisedTwice(call) =>
        /\ call.outcome = "returned"
        /\ call.status \in Terminations \ {"optimal"}

\* C2: one call of solve_model_robust invokes the solver at most twice; the
\* second, relaxed, invocation happens if and only if the first one raised;
\* a first invocation that returns any termination condition is not
\* retried and its condition is the status returned.
C2_RetryIffFirstRaised ==
    call.fn = "solve_model_robust" =>
        LET inv == Invocations(call)
        IN  /\ Len(inv) <= 2
            /\ Len(inv) >= 1 =>
                /\ Len(inv) = 2 <=> inv[1].outcome = "raise"
                /\ inv[1].outcome \in Terminations =>
                    /\ call.outcome = "returned"
                    /\ call.status = inv[1].outcome
            /\ Len(inv) = 2 =>
                /\ inv[1].options = PrimaryOptions(call.max_iter, call.tol, call.verbose)
                /\ inv[2].options.mu_init > inv[1].options.mu_init

C2_Witness ==
    /\ call.fn = "solve_model_robust"
    /\ Len(Invocations(call)) = 1
    /\ Invocations(call)[1].outcome = "infeasible"
    /\ call.outcome = "returned"
    /\ call.status = "infeasible"

\* C3: for every tolerance the caller passes, the relaxed configuration has
\* a convergence tolerance, an initial barrier parameter and a
\* bound-relaxation factor each strictly larger than the primary one.
C3_RelaxedStrictlyLarger ==
    (call.fn = "solve_model_robust" /\ Len(Invocations(call)) = 2) =>
        LET primary == Invocations(call)[1].options
            relaxed == Invocations(call)[2].options
        IN  /\ relaxed.tol > primary.tol
            /\ relaxed.mu_init > primary.mu_init
            /\ relaxed.bound_relax_factor > primary.bound_relax_factor

C5_InvalidTopologyRejected ==
    (built.outcome # "none"
     /\ built.immobilization \notin {"single", "co-immobilization"}) =>
        /\ built.outcome = "raised"
        /\ built.error = "InvalidTopologyError"
        /\ built.raised_in = "add_bvp_constraints"
        /\ ~model.exists

C5_Witness ==
    /\ built.immobilization = "Single"
    /\ built.error = "InvalidTopologyError"
    /\ built.bvp_kwargs.given
    /\ built.bvp_kwargs.enzymeA.fun = "exp"
    /\ Get(built.decay_coef, "kA", 0) = 1


(***************************************************************************)
(* Properties of the profile builder (utils.py), under SpecProfile         *)
(***************************************************************************)
PyomoCall == profileCall.version = "pyomo-enzyme-cascade"

FractionOutside(f) == f < 0 \/ f > 10

\* C6: the profile builder rejects with the invalid-parameter error every
\* call whose start or end fraction lies outside [0,1], for every shape
\* value; it does not clamp, and returns no expression.
C6_OutOfRangeFractionRejected ==
    (PyomoCall /\ (FractionOutside(profileCall.start) \/ FractionOutside(profileCall.end))) =>
        /\ profileCall.error = "InvalidParameterError"
        /\ profileCall.expr = NoExpr

C6_Witness ==
    /\ PyomoCall
    /\ profileCall.fun = "exp"
    /\ profileCall.start = 5
    /\ FractionOutside(profileCall.end)
    /\ profileCall.error = "InvalidParameterError"

\* the step positions of a call: the keyword arguments, 0.3 and 0.7 when absent
CallStepUp == Get(profileCall.kwargs, "x_step_up", 3)
CallStepDown == Get(profileCall.kwargs, "x_step_down", 7)

\* C7: for shape 'step' the builder fails with the invalid-parameter error
\* whenever x_step_up >= x_step_down, and whenever x_step_up or x_step_down
\* is outside [0,1]; the call builds no expression.
C7_StepOrderRejected ==
    (PyomoCall /\ profileCall.fun = "step"
     /\ (CallStepUp >= CallStepDown \/ FractionOutside(CallStepUp)
         \/ FractionOutside(CallStepDown))) =>
        /\ profileCall.error = "InvalidParameterError"
        /\ profileCall.expr = NoExpr

C7_Witness ==
    /\ PyomoCall
    /\ profileCall.fun = "step"
    /\ ~FractionOutside(profileCall.start) /\ ~FractionOutside(profileCall.end)
    /\ CallStepUp = 5 /\ CallStepDown = 5
    /\ profileCall.error = "InvalidParameterError"
    /\ profileCall.expr = NoExpr

\* C8, as stated: for every shape value other than 'linear' and 'step' the
\* builder fails with the unsupported-profile error, whatever the start and
\* end fractions and shape parameters are.
C8_UnsupportedWhatever ==
    (profileCall.version # "none" /\ profileCall.fun \notin {"linear", "step"}) =>
        profileCall.error = "UnsupportedProfileError"

\* C8, amended: for every shape value other than 'linear' and 'step' the
\* builder fails and returns no expression; the error is the
\* unsupported-profile error when start and end lie within [0,1] (and always
\* in mof-model's builder, which has no range check), and the
\* invalid-parameter error when start or end lies outside [0,1].
C8_UnsupportedWhenInRange ==
    (profileCall.version # "none" /\ profileCall.fun \notin {"linear", "step"}) =>
        /\ profileCall.expr = NoExpr
        /\ profileCall.error =
             IF PyomoCall /\ (FractionOutside(profileCall.start)
                              \/ FractionOutside(profileCall.end))
             THEN "InvalidParameterError"
             ELSE "UnsupportedProfileError"

C8_Witness ==
    /\ PyomoCall
    /\ profileCall.fun = "exp"
    /\ profileCall.start = 10 /\ profileCall.end = 0
    /\ "x_step_up" \in DOMAIN profileCall.kwargs
    /\ profileCall.error = "UnsupportedProfileError"

(***************************************************************************)
(* Properties of the profile configuration of a build, under SpecBuild     *)
(***************************************************************************)
\* one enzyme's entry of the configuration is invalid: its shape is
\* unsupported, its start or end fraction is outside [0,1], or its shape is
\* 'step' with x_step_up >= x_step_down
EnzymeInvalid(kw, enzyme, start0, end0) ==
    LET fun == GetStr(enzyme.fun, GetStr(kw.default_fun, "linear"))
    IN  \/ fun \notin {"linear", "step"}
        \/ FractionOutside(Get(enzyme.num, "start", start0))
        \/ FractionOutside(Get(enzyme.num, "end", end0))
        \/ /\ fun = "step"
           /\ Get(enzyme.num, "x_step_up", 3) >= Get(enzyme.num, "x_step_down", 7)

ConfigInvalid(kw) ==
    /\ kw.given
    /\ \/ EnzymeInvalid(kw, kw.enzymeA, 10, 0)
       \/ EnzymeInvalid(kw, kw.enzymeB, 0, 10)

\* C9, as stated: build_reactor_model given a profile configuration with an
\* unsupported shape, an out-of-range fraction or x_step_up >= x_step_down
\* fails, for topology 'single' as well as for 'co-immobilization'.
C9_InvalidConfigFatalEveryTopology ==
    (built.outcome # "none"
     /\ built.immobilization \in {"single", "co-immobilization"}
     /\ ConfigInvalid(built.bvp_kwargs)) =>
        built.outcome = "raised"

\* C9, amended: for topology 'co-immobilization' such a configuration makes
\* the build fail with the profile builder's error; for topology 'single'
\* the profile configuration is not read: the build returns a model, which
\* has no enzyme profile.
C9_InvalidConfigFatalCoImmobilization ==
    (built.outcome # "none" /\ ConfigInvalid(built.bvp_kwargs)) =>
        /\ built.immobilization = "co-immobilization" =>
            /\ built.outcome = "raised"
            /\ built.error \in {"InvalidParameterError", "UnsupportedProfileError"}
            /\ ~model.exists
        /\ built.immobilization = "single" =>
            /\ built.outcome = "returned"
            /\ model.exists
            /\ model.EA_x_profile = NoExpr
            /\ model.EB_x_profile = NoExpr

C9_Witness ==
    /\ built.immobilization = "co-immobilization"
    /\ built.bvp_kwargs.given
    /\ ~EnzymeInvalid(built.bvp_kwargs, built.bvp_kwargs.enzymeA, 10, 0)
    /\ built.bvp_kwargs.enzymeB.fun = "exp"
    /\ built.outcome = "raised"
    /\ built.error = "UnsupportedProfileError"

\* the pore-count correction coefficient of the model the build returned
BuiltCoefficient ==
    calculate_pore_count_coefficient({0, PORE_LENGTH}, {}, model.EA_x_profile, model.EA)

Equalized ==
    /\ built.outcome = "returned"
    /\ built.immobilization = "co-immobilization"
    /\ built.bvp_kwargs.adjust_Np = "True"

\* C10, as stated: with co-immobilization and equalization requested, the
\* effective pore count in the flux (the factor of D_i x entrance gradient
\* x A) is Np x coefficient.
C10_EffectivePoreCountIsNpTimesCoef ==
    Equalized =>
        /\ model.flux.attached
        /\ model.flux.pore_multiple = BuiltCoefficient

\* C10, amended: with co-immobilization and equalization requested, the
\* effective pore count in the flux of every species is
\* Np x coefficient / 2.
C10_EffectivePoreCountIsHalfNpTimesCoef ==
    Equalized =>
        /\ model.flux.attached
        /\ 2 * model.flux.pore_multiple.num * BuiltCoefficient.den
             = BuiltCoefficient.num * model.flux.pore_multiple.den

C10_Witness ==
    /\ Equalized
    /\ model.EA_x_profile.fun = "step"
    /\ BuiltCoefficient.num > BuiltCoefficient.den
    /\ BuiltCoefficient.num < 2 * BuiltCoefficient.den
    /\ model.flux.attached

(***************************************************************************)
(* Pore positions named by the index expressions of the constraints.       *)
(* model.x has the bounds (0, L) (main.py:21), which discretization keeps  *)
(* as its first and last point.                                            *)
(***************************************************************************)
PointAt(at) ==
    CASE at = "x.first()" -> 0
      [] at = "0"         -> 0
      [] at = "x.last()"  -> PORE_LENGTH
      [] at = "L"         -> PORE_LENGTH
      [] OTHER            -> -1

EqualizationRequested ==
    built.bvp_kwargs.given /\ built.bvp_kwargs.adjust_Np = "True"

\* C11: the flux of a built model is -D_i * (pore gradient at the entrance
\* x = 0) * A * effective pore count, where the effective pore count is
\* Np / 2 for 'single' and exactly Np for 'co-immobilization' when
\* equalization is not requested
C11_FluxEffectivePoreCount ==
    (built.outcome = "returned" /\ ~(built.immobilization = "co-immobilization"
                                     /\ EqualizationRequested)) =>
        /\ model.flux.attached
        /\ model.flux.sign = -1 /\ model.flux.D = "D" /\ model.flux.A = "A"
        /\ model.flux.gradient = "dS_ndx" /\ PointAt(model.flux.at) = 0
        /\ built.immobilization = "single" =>
              model.flux.pore_multiple = [num |-> 1, den |-> 2]
        /\ built.immobilization = "co-immobilization" =>
              model.flux.pore_multiple = [num |-> 1, den |-> 1]

C11_Witness ==
    /\ built.outcome = "returned"
    /\ built.immobilization = "co-immobilization"
    /\ built.bvp_kwargs.adjust_Np = "False"
    /\ built.bvp_kwargs.enzymeA.fun = "step"
    /\ model.flux.pore_multiple = [num |-> 1, den |-> 1]

(***************************************************************************)
(* The points of a ContinuousSet over (0, L).  A point is its finite       *)
(* element boundary, as a fraction of L, and the number of the collocation *)
(* point after that boundary (0 for the boundary itself).  Before          *)
(* discretization the set holds its two bounds; collocation with nfe       *)
(* finite elements and ncp Radau points gives nfe * ncp + 1 points.        *)
(***************************************************************************)
MeshPoints(ds) ==
    IF ds.scheme = "unread" THEN {}
    ELSE IF ds.scheme = "none"
    THEN {[fe |-> Ratio(0, 1), cp |-> 0], [fe |-> Ratio(1, 1), cp |-> 0]}
    ELSE {[fe |-> Ratio(i, ds.nfe), cp |-> 0] : i \in 0 .. ds.nfe}
         \cup {[fe |-> Ratio(i, ds.nfe), cp |-> j]
                 : i \in 0 .. (ds.nfe - 1), j \in 1 .. (ds.ncp - 1)}

\* C12: in a build-then-solve cycle with equalization, the point set read
\* by calculate_pore_count_coefficient is the pore mesh the model is
\* solved over
C12_CoefficientReadsSolvedMesh ==
    (built.outcome = "returned" /\ built.immobilization = "co-immobilization"
     /\ EqualizationRequested /\ call.fn # "none" /\ model.x.scheme # "none") =>
        MeshPoints(model.flux.coef_x) = MeshPoints(model.x)

CoefEvaluated == coefCall.x_values \ coefCall.raising

\* the profile value that is the maximum density, in the units of ProfileValue
CoefMaxValue == coefCall.E * 10 * 1000 * PORE_LENGTH

CoefTotal == SumValues(coefCall.expr, CoefEvaluated, coefCall.E)

CoefProfileAtMax ==
    /\ CoefEvaluated # {}
    /\ \A x \in CoefEvaluated :
          ProfileValue(coefCall.expr, x, coefCall.E) = CoefMaxValue

CoefAverageBelowMax == CoefTotal < Cardinality(CoefEvaluated) * CoefMaxValue

\* C13 as stated: the coefficient is 1 when the profile equals the
\* maximum density at every averaged point, and strictly greater than 1
\* whenever the average over those points is below the maximum density
C13_AboveOneWheneverBelowMax ==
    coefCall.called =>
        /\ CoefProfileAtMax => coefCall.coef = [num |-> 1, den |-> 1]
        /\ CoefAverageBelowMax => coefCall.coef.num > coefCall.coef.den

\* C13: the coefficient is 1 when the profile equals the maximum density
\* at every averaged point and when the average is zero; it is strictly
\* greater than 1 whenever the average is positive and below the maximum
\* density
C13_AboveOneWhenPositiveBelowMax ==
    coefCall.called =>
        /\ CoefProfileAtMax => coefCall.coef = [num |-> 1, den |-> 1]
        /\ CoefTotal = 0 => coefCall.coef = [num |-> 1, den |-> 1]
        /\ (CoefAverageBelowMax /\ CoefTotal > 0) =>
              coefCall.coef.num > coefCall.coef.den

C13_Witness ==
    /\ coefCall.called
    /\ Cardinality(CoefEvaluated) = 3
    /\ coefCall.expr.fun = "step"
    /\ CoefAverageBelowMax /\ CoefTotal > 0
    /\ coefCall.coef.num > coefCall.coef.den

C14_WitnessZeroAverage ==
    /\ coefCall.called
    /\ CoefEvaluated # {} /\ CoefTotal = 0
    /\ coefCall.E > 0
    /\ coefCall.coef = [num |-> 1, den |-> 1]

\* dS1/dt = -flux(S1), dS2/dt = flux(S1) - flux(S2), dS3/dt = flux(S2)
CascadeBulkEquations ==
    {[name |-> "S1_reactor_ivp", species |-> "S1",
      terms |-> {[sign |-> -1, flux |-> "S1"]}],
     [name |-> "S2_reactor_ivp", species |-> "S2",
      terms |-> {[sign |-> 1, flux |-> "S1"], [sign |-> -1, flux |-> "S2"]}],
     [name |-> "S3_reactor_ivp", species |-> "S3",
      terms |-> {[sign |-> 1, flux |-> "S2"]}]}

\* C15: for 'single' and for 'co-immobilization' alike the bulk builder
\* emits dS1/dt = -flux(S1), dS2/dt = flux(S1) - flux(S2),
\* dS3/dt = flux(S2) and one initial condition per species
C15_SameBulkEquationsBothTopologies ==
    built.outcome = "returned" =>
        /\ built.immobilization \in {"single", "co-immobilization"}
        /\ model.bulk_eqs = CascadeBulkEquations
        /\ \A c \in Components :
              Cardinality({ic \in model.ics : ic.species = c}) = 1
        /\ \A ic \in model.ics :
              /\ ic.species \in Components
              /\ ic.at = "0" /\ ic.rhs = "S_initial"

C15_Witness ==
    /\ built.outcome = "returned"
    /\ built.immobilization = "single"
    /\ model.bulk_eqs = CascadeBulkEquations
    /\ Cardinality(model.ics) = 3

\* values a flux can take
MaxFlux == 2

FluxValues == [Components -> (-MaxFlux) .. MaxFlux]

RECURSIVE RhsValue(_, _)
\* the right-hand side of a bulk equation under the flux values f
RhsValue(terms, f) ==
    IF terms = {} THEN 0
    ELSE LET tm == CHOOSE u \in terms : TRUE
         IN  tm.sign * f[tm.flux] + RhsValue(terms \ {tm}, f)

RECURSIVE SumRhs(_, _)
SumRhs(eqs, f) ==
    IF eqs = {} THEN 0
    ELSE LET eq == CHOOSE e \in eqs : TRUE
         IN  RhsValue(eq.terms, f) + SumRhs(eqs \ {eq}, f)

\* C16: for every value of the fluxes the right-hand sides of the three
\* bulk equations sum to zero, and flux(S3) enters none of them
C16_BulkMassConserved ==
    built.outcome = "returned" =>
        /\ Cardinality(model.bulk_eqs) = 3
        /\ \A f \in FluxValues : SumRhs(model.bulk_eqs, f) = 0
        /\ \A eq \in model.bulk_eqs : \A tm \in eq.terms : tm.flux # "S3"

C16_Witness ==
    /\ built.outcome = "returned"
    /\ built.immobilization = "co-immobilization"
    /\ \E f \in FluxValues :
          /\ f["S1"] = MaxFlux /\ f["S2"] = 1
          /\ \E eq \in model.bulk_eqs :
                eq.species = "S2" /\ RhsValue(eq.terms, f) = MaxFlux - 1
          /\ SumRhs(model.bulk_eqs, f) = 0

\* C17: for both topologies and every species the built model holds
\* bc1: S_n(species, first pore point, t) = S_0(species, t) and
\* bc2: dS_n/dx(species, last pore point, t) = 0, the first and last pore
\* points being x = 0 and x = L
C17_BoundaryConditionsAtEnds ==
    built.outcome = "returned" =>
        /\ built.immobilization \in {"single", "co-immobilization"}
        /\ Cardinality(model.bcs) = 2 * Cardinality(Components)
        /\ \A c \in Components :
              /\ \E bc \in model.bcs :
                    /\ bc.name = "bc1" /\ bc.species = c
                    /\ bc.lhs = "S_n" /\ PointAt(bc.at) = 0 /\ bc.rhs = "S_0"
              /\ \E bc \in model.bcs :
                    /\ bc.name = "bc2" /\ bc.species = c
                    /\ bc.lhs = "dS_ndx" /\ PointAt(bc.at) = PORE_LENGTH
                    /\ bc.rhs = "0"

C17_Witness ==
    /\ built.outcome = "returned"
    /\ built.immobilization = "co-immobilization"
    /\ \E bc \in model.bcs :
          bc.name = "bc2" /\ bc.species = "S3" /\ PointAt(bc.at) = PORE_LENGTH
    /\ \E bc \in model.bcs :
          bc.name = "bc1" /\ bc.species = "S3" /\ PointAt(bc.at) = 0

\* the signs with which the terms of an enzyme appear in the pore equation
\* of a species (D_i * d2S_i/dx2 = right-hand side: +1 is a sink)
TermSigns(m, species, E) ==
    {tm.sign : tm \in UNION {eq.terms : eq \in {e \in m.pore_eqs : e.species = species}}
             \cap {u \in UNION {e.terms : e \in m.pore_eqs} : u.E = E}}

\* C18: in the co-immobilization pore equations the enzyme-A term is a
\* sink in the S1 equation and has the opposite sign in the S2 equation;
\* the enzyme-B term is a sink in the S2 equation and has the opposite
\* sign in the S3 equation
C18_IntermediateCoupling ==
    (built.outcome = "returned" /\ built.immobilization = "co-immobilization") =>
        /\ TermSigns(model, "S1", "EA_x_profile") = {1}
        /\ TermSigns(model, "S2", "EA_x_profile") = {-1}
        /\ TermSigns(model, "S2", "EB_x_profile") = {1}
        /\ TermSigns(model, "S3", "EB_x_profile") = {-1}

LinearCall ==
    /\ profileCall.version # "none"
    /\ profileCall.fun = "linear"
    /\ profileCall.error = "none"

\* C19: a linear profile takes the value start * maximum density at x = 0
\* and end * maximum density at x = L; with start = 1 and end = 0 it is
\* the maximum density at the entrance, zero at the closed end, and
\* strictly decreasing in between
C19_LinearProfileEndpoints ==
    LinearCall =>
        \A E \in 1 .. MaxEnzyme :
            LET profile(x) == ProfileValue(profileCall.expr, x, E)
                max        == E * 10 * 1000 * PORE_LENGTH
            IN  /\ 10 * profile(0) = profileCall.start * max
                /\ 10 * profile(PORE_LENGTH) = profileCall.end * max
                /\ (profileCall.start = 10 /\ profileCall.end = 0) =>
                      /\ profile(0) = max
                      /\ profile(PORE_LENGTH) = 0
                      /\ \A x, y \in 0 .. PORE_LENGTH :
                            x < y => profile(x) > profile(y)

C19_Witness ==
    /\ LinearCall /\ PyomoCall
    /\ profileCall.start = 10 /\ profileCall.end = 0
    /\ ProfileValue(profileCall.expr, 0, MaxEnzyme) = MaxEnzyme * 10 * 1000 * PORE_LENGTH
    /\ ProfileValue(profileCall.expr, 1, MaxEnzyme) * 2 = MaxEnzyme * 10 * 1000 * PORE_LENGTH
    /\ ProfileValue(profileCall.expr, PORE_LENGTH, MaxEnzyme) = 0

\* time points at which a decay factor is evaluated
MaxTime == 3

DecayAsStated(key, decay) ==
    LET rate == Get(built.decay_coef, key, 0)
    IN  /\ DecayValue(decay, 0) = 1000
        /\ rate <= 0 => \A t \in 0 .. MaxTime : DecayValue(decay, t) = 1000
        /\ rate > 0 =>
              /\ \A t \in 0 .. MaxTime : DecayValue(decay, t) = ExpNeg(rate * t)
              /\ \A t1, t2 \in 0 .. MaxTime :
                    t1 < t2 => DecayValue(decay, t1) > DecayValue(decay, t2)

\* C20: the decay factor of an enzyme is the constant 1 when its rate is
\* <= 0 or absent and exp(-rate * t) otherwise, so it is 1 at t = 0 and
\* strictly decreasing; in both topologies every reaction term of enzyme A
\* carries enzyme A's decay factor and every term of enzyme B enzyme B's
C20_DecayFactors ==
    built.outcome = "returned" =>
        /\ DecayAsStated("kA", model.decay_A)
        /\ DecayAsStated("kB", model.decay_B)
        /\ model.pore_eqs # {}
        /\ \A eq \in model.pore_eqs :
              /\ eq.terms # {}
              /\ \A tm \in eq.terms :
                    \/ tm.E \in {"EA", "EA_x_profile"} /\ tm.k = "kA"
                       /\ tm.decay = "decay_A"
                    \/ tm.E \in {"EB", "EB_x_profile"} /\ tm.k = "kB"
                       /\ tm.decay = "decay_B"

C20_Witness ==
    /\ built.outcome = "returned"
    /\ built.immobilization = "co-immobilization"
    /\ Get(built.decay_coef, "kA", 0) = 1 /\ Get(built.decay_coef, "kB", 0) = 0
    /\ DecayValue(model.decay_A, 1) < 1000
    /\ DecayValue(model.decay_B, MaxTime) = 1000
    /\ \E eq \in model.pore_eqs :
          eq.species = "S2" /\ {tm.decay : tm \in eq.terms} = {"decay_A", "decay_B"}

NextLoad == LoadParameters

SpecLoad == Init /\ [][NextLoad]_vars

ConfigKeyMissing(config) ==
    config.attrs # ConfigAttributes \/ config.entries # ConfigEntries

DomainBoundNonPositive(config) ==
    config.REACTION_TIME <= 0 \/ config.PORE_LENGTH <= 0

\* C21: whenever a required configuration key is missing or a domain bound
\* (total reaction time, pore length) is non-positive, parameter loading
\* fails with ConfigurationError before any time or pore domain is created
C21_LoadRejectsBadConfiguration ==
    (loadCall.called /\ (ConfigKeyMissing(loadCall.config)
                         \/ DomainBoundNonPositive(loadCall.config))) =>
        /\ loadCall.error = "ConfigurationError"
        /\ loadCall.time = "none" /\ loadCall.x = "none"

NextStudy == StartStudy \/ StudyPoint \/ StudyReturn

SpecStudy == Init /\ [][NextStudy]_vars

StudyPoints == 1 .. Len(study.trace)

\* C22: every sweep point runs on a model instance built for that point
\* alone; whatever happens at a point, it yields exactly one record, with
\* converged = true iff the termination was optimal, and the later points
\* still run: the result has num_points records in configuration order
C22_SweepPointsIndependent ==
    study.started =>
        /\ Len(study.results) = study.i /\ Len(study.trace) = study.i
        /\ study.i <= study.num_points
        /\ \A k \in StudyPoints :
              /\ study.results[k].config_id = k - 1
              /\ study.results[k].converged <=> study.trace[k].termination = "optimal"
              /\ study.trace[k].solved # 0 =>
                    /\ study.trace[k].solved = study.trace[k].built
                    /\ \A j \in StudyPoints \ {k} :
                          /\ study.trace[j].built # study.trace[k].solved
                          /\ study.trace[j].solved # study.trace[k].solved
        /\ \A k \in StudyPoints :
              \* a point that failed did not stop the sweep
              (k < study.num_points /\ study.returned) => k + 1 \in StudyPoints
        /\ study.returned => Len(study.results) = study.num_points

C22_Witness ==
    /\ study.returned
    /\ Len(study.results) >= 3
    /\ study.results[1].solver_status = "SolveFailure"
    /\ ~study.results[1].converged
    /\ study.results[2].converged
    /\ study.results[3].solver_status = "infeasible"
    /\ study.trace[2].solved = 2 /\ study.trace[3].solved = 3

RobustCallSolved ==
    /\ call.fn = "solve_model_robust"
    /\ Len(Invocations(call)) >= 1

\* C23: in one call of solve_model_robust the model is discretized exactly
\* once, the time domain first and the pore domain second, before the
\* first solver invocation; a retry does not discretize again, so both
\* attempts run on the same mesh of the same model, which is the model the
\* call leaves to its caller
C23_DiscretizedOncePerCall ==
    RobustCallSolved =>
        /\ Len(call.events) = 2 + Len(Invocations(call))
        /\ call.events[1].op = "discretize" /\ call.events[1].wrt = "time"
        /\ call.events[2].op = "discretize" /\ call.events[2].wrt = "x"
        /\ \A k \in 3 .. Len(call.events) : call.events[k].op = "solve"
        /\ ~Discretized(call.before)
        /\ model.time = [scheme |-> "LAGRANGE-RADAU", nfe |-> call.events[1].nfe,
                         ncp |-> call.events[1].ncp]
        /\ model.x = [scheme |-> "LAGRANGE-RADAU", nfe |-> call.events[2].nfe,
                      ncp |-> call.events[2].ncp]
        /\ [model EXCEPT !.time = call.before.time, !.x = call.before.x,
                         !.solved = call.before.solved] = call.before

C23_Witness ==
    /\ RobustCallSolved
    /\ Len(Invocations(call)) = 2
    /\ call.outcome = "returned" /\ call.status = "infeasible"
    /\ Len(call.events) = 4
    /\ model.x.nfe = 20 /\ model.x.ncp = 3 /\ model.time.nfe = 60

RobustCallRetried ==
    call.fn = "solve_model_robust" /\ Len(Invocations(call)) = 2

OptionNames == DOMAIN EmptyOptions

RelaxedNames == {"max_iter", "tol", "mu_init", "bound_relax_factor"}

\* the options whose values differ between two configurations
DifferingOptions(p, r) == {k \in OptionNames : p[k] # r[k]}

\* C24 as stated: the relaxed configuration differs from the primary one in
\* exactly the four options max_iter, tol, mu_init and bound_relax_factor
C24_DiffersInExactlyFour ==
    RobustCallRetried =>
        DifferingOptions(Invocations(call)[1].options, Invocations(call)[2].options)
            = RelaxedNames

\* C24: the relaxed configuration sets max_iter to 5000, tol to 1e-4,
\* mu_init to 1e-3 and bound_relax_factor to 1e-6 whatever the caller
\* passed, and differs from the primary configuration in no other option:
\* constr_viol_tol stays at the caller's tol, mu_strategy adaptive, scaling
\* gradient-based, linear solver and print level unchanged.  max_iter or
\* tol does not differ when the caller passed the relaxed value itself.
C24_RelaxedFrame ==
    RobustCallRetried =>
        LET primary == Invocations(call)[1].options
            relaxed == Invocations(call)[2].options
        IN  /\ DifferingOptions(primary, relaxed) \subseteq RelaxedNames
            /\ {"mu_init", "bound_relax_factor"} \subseteq DifferingOptions(primary, relaxed)
            /\ relaxed.max_iter = 5000 /\ relaxed.tol = 10000
            /\ relaxed.mu_init = 100000 /\ relaxed.bound_relax_factor = 100
            /\ primary.max_iter = call.max_iter /\ primary.tol = call.tol
            /\ relaxed.constr_viol_tol = call.tol
            /\ relaxed.mu_strategy = "adaptive"
            /\ relaxed.nlp_scaling_method = "gradient-based"
            /\ relaxed.linear_solver = "mumps"
            /\ relaxed.print_level = IF call.verbose THEN 5 ELSE 0

C24_Witness ==
    /\ RobustCallRetried
    /\ call.max_iter = 1000 /\ call.tol = 100 /\ call.verbose
    /\ DifferingOptions(Invocations(call)[1].options, Invocations(call)[2].options)
          = RelaxedNames
    /\ Invocations(call)[2].options.constr_viol_tol = 100

\* C25: when add_bvp_constraints rejects an unrecognized topology, the
\* model it was given is left unchanged: no decay expression, governing
\* equation, boundary condition or flux expression has been attached
C25_RejectedTopologyLeavesModel ==
    (built.outcome = "raised" /\ built.raised_in = "add_bvp_constraints"
     /\ built.error = "InvalidTopologyError") =>
        /\ built.left = built.given
        /\ built.left.decay_A = NoDecay /\ built.left.decay_B = NoDecay
        /\ built.left.pore_eqs = {} /\ built.left.bcs = {}
        /\ ~built.left.flux.attached

AcceptedCall == PyomoCall /\ profileCall.error = "none"

Min(a, b) == IF a <= b THEN a ELSE b

Max(a, b) == IF a >= b THEN a ELSE b

\* C26: for every parameter set the profile builder accepts (linear or
\* step, any smoothness), the profile value at every pore position lies
\* between 0 and the maximum density, and for 'step' between
\* start * maximum density and end * maximum density
C26_ProfileWithinBounds ==
    AcceptedCall =>
        \A E \in 1 .. MaxEnzyme : \A x \in 0 .. PORE_LENGTH :
            LET value == ProfileValue(profileCall.expr, x, E)
                unit  == E * 1000 * PORE_LENGTH
            IN  /\ 0 <= value /\ value <= 10 * unit
                /\ profileCall.fun = "step" =>
                      /\ Min(profileCall.start, profileCall.end) * unit <= value
                      /\ value <= Max(profileCall.start, profileCall.end) * unit

EmptyKwargs == Kwargs("absent", "absent", EmptyEnzyme, EmptyEnzyme)

\* C27: build_reactor_model with topology 'co-immobilization' and no
\* profile configuration does not fail and builds the model an empty
\* profile configuration gives: enzyme A linear from 1 to 0, enzyme B
\* linear from 0 to 1, no pore-count equalization
C27_AbsentConfigurationIsEmpty ==
    (built.outcome # "none" /\ built.immobilization = "co-immobilization"
     /\ ~built.bvp_kwargs.given) =>
        /\ built.outcome = "returned"
        /\ model = build_reactor_model("co-immobilization", built.decay_coef,
                                       EmptyKwargs).model
        /\ model.EA_x_profile.fun = "linear"
        /\ model.EA_x_profile.start = 10 /\ model.EA_x_profile.end = 0
        /\ model.EB_x_profile.fun = "linear"
        /\ model.EB_x_profile.start = 0 /\ model.EB_x_profile.end = 10
        /\ model.flux.coef_x = UnreadSet
        /\ model.flux.pore_multiple = [num |-> 1, den |-> 1]

\* the pore-scale build of the last configuration, with enzyme B's profile
\* configuration and maximum density replaced
BuildWithEnzymeB(enzymeB, EB) ==
    add_bvp_constraints([NewModel EXCEPT !.EB = EB], built.immobilization,
                        built.decay_coef,
                        [built.bvp_kwargs EXCEPT !.enzymeB = enzymeB])

\* C28: with equalization requested the pore-count coefficient depends on
\* enzyme A's profile and maximum density only: a build that differs only
\* in enzyme B's profile configuration or maximum density gets the same
\* coefficient, and that one coefficient scales the flux of every species
C28_CoefficientIgnoresEnzymeB ==
    (Equalized /\ model.flux.attached) =>
        /\ 2 * model.flux.pore_multiple.num * PoreCountCoef(model).den
              = PoreCountCoef(model).num * model.flux.pore_multiple.den
        /\ \A enzymeB \in Enzymes : \A EB \in 0 .. MaxEnzyme :
              LET other == BuildWithEnzymeB(enzymeB, EB)
              IN  other.error = "none" => other.model.flux = model.flux

C28_Witness ==
    /\ Equalized /\ model.flux.attached
    /\ built.bvp_kwargs.enzymeB.fun = "step"
    /\ built.bvp_kwargs.enzymeA = EmptyEnzyme
    /\ BuildWithEnzymeB(EmptyEnzyme, 1).error = "none"
    /\ BuildWithEnzymeB(EmptyEnzyme, 1).model.EB_x_profile # model.EB_x_profile
    /\ BuildWithEnzymeB(EmptyEnzyme, 1).model.EB # model.EB
    /\ model.flux.pore_multiple = [num |-> 1, den |-> 1]

\* a build with each version of the package
NextEquivalence == Build \/ BuildMof

SpecEquivalence == Init /\ [][NextEquivalence]_vars

\* pore equations without the decay factors of their terms
StripDecay(eqs) ==
    {[eq EXCEPT !.terms = {[tm EXCEPT !.decay = "none"] : tm \in eq.terms}]
        : eq \in eqs}

SameFlux(f, g) ==
    /\ f.attached /\ g.attached
    /\ f.sign = g.sign /\ f.D = g.D /\ f.gradient = g.gradient /\ f.A = g.A
    /\ PointAt(f.at) = PointAt(g.at)
    /\ f.pore_multiple = g.pore_multiple

PyomoNoDecay ==
    /\ built.outcome = "returned"
    /\ model.decay_A.kind = "one" /\ model.decay_B.kind = "one"

MofEnzymeBTerms ==
    {tm \in UNION {eq.terms : eq \in mofBuilt.model.pore_eqs} :
        tm.E \in {"EB", "EB_x_profile"}}

\* C29: with no decay, mof-model sid 'alpha' yields the governing
\* equations and flux expression of pyomo-enzyme-cascade 'single', and sid
\* 'gamma' those of 'co-immobilization' with default linear profiles and no
\* equalization (every enzyme-B term multiplied by kB, same flux scaling);
\* a sid outside alpha, gamma, delta is rejected like an invalid topology
C29_VersionsAgree ==
    /\ (mofBuilt.sid = "alpha" /\ PyomoNoDecay /\ built.immobilization = "single") =>
          /\ mofBuilt.outcome = "returned"
          /\ StripDecay(mofBuilt.model.pore_eqs) = StripDecay(model.pore_eqs)
          /\ SameFlux(mofBuilt.model.flux, model.flux)
    /\ (mofBuilt.sid = "gamma" /\ PyomoNoDecay
        /\ built.immobilization = "co-immobilization"
        /\ built.bvp_kwargs = EmptyKwargs) =>
          /\ mofBuilt.outcome = "returned"
          /\ StripDecay(mofBuilt.model.pore_eqs) = StripDecay(model.pore_eqs)
          /\ mofBuilt.model.EA_x_profile = model.EA_x_profile
          /\ mofBuilt.model.EB_x_profile = model.EB_x_profile
          /\ \A tm \in MofEnzymeBTerms : tm.k = "kB"
          /\ SameFlux(mofBuilt.model.flux, model.flux)
    /\ (mofBuilt.outcome # "none" /\ mofBuilt.sid \notin {"alpha", "gamma", "delta"}) =>
          /\ mofBuilt.outcome = "raised"
          /\ mofBuilt.error = "InvalidTopologyError"

====
